---- MODULE Spec2Model ----
(***************************************************************************)
(* Model of the traefik API-key authentication middleware (plugin.go).     *)
(*                                                                         *)
(* Strings whose characters matter (keys, header values, paths) are        *)
(* sequences of one-character strings, the empty string being << >>.       *)
(* Header names, query-parameter names, error messages and the response    *)
(* body are TLA+ strings.  A header map is a function from the canonical   *)
(* header names to the list of values carried under that name (<< >> when  *)
(* the header is absent).  A raw query string is the sequence of its       *)
(* <<name, value>> pairs in wire order.                                    *)
(***************************************************************************)
EXTENDS Integers, Sequences, FiniteSets, TLC

VARIABLES
    pc,        \* "start", "failed", "ready", "serving", "returned"
    config,    \* the Config handed to New (<< >> before New ran)
    ka,        \* << >> (nil handler) or <<k>>, k the KeyAuth built by New
    err,       \* << >> (nil error) or <<message>>
    inbound,   \* the request as delivered by the host pipeline
    req,       \* the request object, mutated in place by ServeHTTP
    rw,        \* the http.ResponseWriter: what has been written to the caller
    calls,     \* the requests handed to next.ServeHTTP while serving req
    stdout,    \* the "INFO: ... KEY k URL u" lines written while serving req
    matcher    \* the frame of a direct call to contains / bearer

vars == <<pc, config, ka, err, inbound, req, rw, calls, stdout, matcher>>

----------------------------------------------------------------------------
(* Strings *)

K1 == <<"k", "1">>
K2 == <<"k", "2">>
ZZ == <<"z", "z">>
Evil == <<"e", "v", "i", "l">>
BearerWord == <<"B", "e", "a", "r", "e", "r">>
BasicWord == <<"B", "a", "s", "i", "c">>
Space == <<" ">>
Denied == <<"/", "d", "e", "n", "i", "e", "d">>

\* strings.Contains(s, substr)
StringsContains(s, substr) ==
    \E i \in 0..(Len(s) - Len(substr)) : SubSeq(s, i + 1, i + Len(substr)) = substr

----------------------------------------------------------------------------
(* Matcher: contains and bearer *)

RECURSIVE containsFrom(_, _, _, _)
\* the loop "for _, a := range validKeys" from index i on
containsFrom(key, validKeys, exact, i) ==
    IF i > Len(validKeys) THEN << >>
    ELSE LET a == validKeys[i] IN
         IF exact
         THEN IF a = key THEN a ELSE containsFrom(key, validKeys, exact, i + 1)
         ELSE IF StringsContains(key, a) THEN a
              ELSE containsFrom(key, validKeys, exact, i + 1)

RECURSIVE lastFrom(_, _, _, _, _)
\* a loop that does not return at the first hit but keeps the last one
lastFrom(key, validKeys, exact, i, found) ==
    IF i > Len(validKeys) THEN found
    ELSE LET a == validKeys[i]
             hit == IF exact THEN a = key ELSE StringsContains(key, a)
         IN lastFrom(key, validKeys, exact, i + 1, IF hit THEN a ELSE found)

\* contains without the early return
containsLast(key, validKeys, exact) == lastFrom(key, validKeys, exact, 1, << >>)

\* contains that ignores the exact flag and always tests containment
containsLoose(key, validKeys, exact) == containsFrom(key, validKeys, FALSE, 1)

contains(key, validKeys, exact) == containsFrom(key, validKeys, exact, 1)

\* the class \s of the regexp syntax: [\t\n\f\r ]
IsSpace(ch) == ch \in {" ", "\t", "\n", "\f", "\r"}

\* the regexp Bearer\s(?P<key>[^$]+) matches text starting at position i
MatchesAt(text, i) ==
    /\ i + 7 <= Len(text)
    /\ SubSeq(text, i, i + 5) = BearerWord
    /\ IsSpace(text[i + 6])
    /\ text[i + 7] # "$"

\* the end of the longest run of characters other than "$" that starts at from
RunEnd(text, from) ==
    CHOOSE e \in from..Len(text) :
        /\ \A j \in from..e : text[j] # "$"
        /\ (e = Len(text) \/ text[e + 1] = "$")

\* re.FindStringSubmatch(text): << >> for nil, else <<whole match, group key>>
\* of the leftmost match, the group being greedy
FindStringSubmatch(text) ==
    LET starts == {i \in 1..Len(text) : MatchesAt(text, i)} IN
    IF starts = {} THEN << >>
    ELSE LET i == CHOOSE s \in starts : \A t \in starts : s <= t
             e == RunEnd(text, i + 7)
         IN <<SubSeq(text, i, e), SubSeq(text, i + 7, e)>>

\* re.SubexpIndex("key"): the group key is the first group
keyIndex == 1

bearer(key, validKeys) ==
    LET matches == FindStringSubmatch(key) IN
    IF matches = << >> THEN << >>
    ELSE contains(matches[keyIndex + 1], validKeys, TRUE)

----------------------------------------------------------------------------
(* net/http and net/url operations the handler calls *)

HeaderNames == {"X-Api-Key", "Authorization", "X-Auth-Key"}

\* textproto.CanonicalMIMEHeaderKey on the names that occur
CanonicalMIMEHeaderKey(name) ==
    CASE name = "X-API-KEY" -> "X-Api-Key"
      [] OTHER -> name

\* http.Header.Get: the first value under the canonical name, "" when absent
HeaderGet(h, name) ==
    LET vs == h[CanonicalMIMEHeaderKey(name)] IN
    IF vs = << >> THEN << >> ELSE vs[1]

\* http.Header.Del: drops every value under the canonical name
HeaderDel(h, name) == [h EXCEPT ![CanonicalMIMEHeaderKey(name)] = << >>]

\* http.Header.Add: appends to the values under the canonical name
HeaderAdd(h, name, value) ==
    [h EXCEPT ![CanonicalMIMEHeaderKey(name)] = Append(@, value)]

\* the parameter names that occur, in the order sort.Strings gives them
SortedParamNames == <<"a", "token", "z">>
ParamNames == {SortedParamNames[i] : i \in 1..Len(SortedParamNames)}

\* url.URL.Query(): the values of each name, in wire order
Query(rawQuery) ==
    [n \in ParamNames |->
        LET sel == SelectSeq(rawQuery, LAMBDA p : p[1] = n)
        IN [i \in 1..Len(sel) |-> sel[i][2]]]

\* url.Values.Get: the first value of the name, "" when absent
ValuesGet(qs, name) == IF qs[name] = << >> THEN << >> ELSE qs[name][1]

\* url.Values.Del: drops every value of the name
ValuesDel(qs, name) == [qs EXCEPT ![name] = << >>]

RECURSIVE EncodeFrom(_, _)
\* url.Values.Encode(): the pairs, sorted by name
EncodeFrom(qs, i) ==
    IF i > Len(SortedParamNames) THEN << >>
    ELSE LET n == SortedParamNames[i] IN
         [j \in 1..Len(qs[n]) |-> <<n, qs[n][j]>>] \o EncodeFrom(qs, i + 1)

Encode(qs) == EncodeFrom(qs, 1)

\* url.URL.RequestURI(): path and raw query
RequestURI(url) == [Path |-> url.Path, RawQuery |-> url.RawQuery]

\* json.NewEncoder(rw).Encode(response): the compact object, then a newline
JSONEncode(response) ==
    "{\"message\":\"" \o response.Message \o "\",\"status_code\":"
        \o ToString(response.StatusCode) \o "}\n"

\* http.StatusForbidden
StatusForbidden == 403

----------------------------------------------------------------------------
(* Construction *)

\* the rule the README states: only the two header methods count
NewErrorHeadersOnly(cfg) ==
    IF Len(cfg.Keys) = 0
    THEN <<"must specify at least one valid key">>
    ELSE IF ~cfg.AuthenticationHeader /\ ~cfg.BearerHeader
         THEN <<"at least one method must be true">>
         ELSE << >>

\* the two checks of New: << >> when the configuration is accepted
NewError(cfg) ==
    IF Len(cfg.Keys) = 0
    THEN <<"must specify at least one valid key">>
    ELSE IF ~cfg.AuthenticationHeader /\ ~cfg.BearerHeader
            /\ ~cfg.QueryParam /\ ~cfg.PathSegment
         THEN <<"at least one method must be true">>
         ELSE << >>

\* the KeyAuth literal New returns
KeyAuth(cfg) ==
    [authenticationHeader       |-> cfg.AuthenticationHeader,
     authenticationHeaderName   |-> cfg.AuthenticationHeaderName,
     bearerHeader               |-> cfg.BearerHeader,
     bearerHeaderName           |-> cfg.BearerHeaderName,
     queryParam                 |-> cfg.QueryParam,
     queryParamName             |-> cfg.QueryParamName,
     pathSegment                |-> cfg.PathSegment,
     removeQueryParamsOnSuccess |-> cfg.RemoveQueryParamsOnSuccess,
     keys                       |-> cfg.Keys,
     removeHeadersOnSuccess     |-> cfg.RemoveHeadersOnSuccess,
     internalForwardHeaderName  |-> cfg.InternalForwardHeaderName,
     internalErrorRoute         |-> cfg.InternalErrorRoute]

----------------------------------------------------------------------------
(* Request handling.  Every operator below yields the state ServeHTTP       *)
(* leaves behind: the request, the response writer, the calls made to the  *)
(* next handler and the lines logged.                                      *)

\* ok that forwards without injecting the header
okNoForwardHeader(k, w, r, key) ==
    LET r2 == [r EXCEPT !.RequestURI = RequestURI(r.URL)] IN
    [req |-> r2, rw |-> w, calls |-> <<r2>>,
     stdout |-> <<[KEY |-> key, URL |-> r.URL]>>]

ok(k, w, r, key) ==
    LET r1 == IF k.internalForwardHeaderName # ""
              THEN [r EXCEPT !.Header =
                        HeaderAdd(@, k.internalForwardHeaderName, key)]
              ELSE r
        r2 == [r1 EXCEPT !.RequestURI = RequestURI(r1.URL)]
    IN [req |-> r2, rw |-> w, calls |-> <<r2>>,
        stdout |-> <<[KEY |-> key, URL |-> r.URL]>>]

\* the override branch without the reset of the query string
errorRouteKeepQuery(k, w, r) ==
    [req |-> [r EXCEPT !.URL.Path = k.internalErrorRoute],
     rw |-> w, calls |-> << >>, stdout |-> << >>]

\* the branch taken when internalErrorRoute is set: the request is re-pointed
errorRoute(k, w, r) ==
    [req |-> [r EXCEPT !.URL.Path = k.internalErrorRoute,
                       !.URL.RawQuery = << >>],
     rw |-> w, calls |-> << >>, stdout |-> << >>]

\* the rejection with the status written before the header is set, which
\* then never reaches the caller
forbiddenHeaderLate(w, r) ==
    LET response == [Message |-> "Invalid or missing API Key",
                     StatusCode |-> StatusForbidden]
    IN [req |-> r,
        rw |-> [w EXCEPT !.code = response.StatusCode,
                         !.body = @ \o JSONEncode(response)],
        calls |-> << >>, stdout |-> << >>]

\* the 403 answer written to the caller
forbidden(w, r) ==
    LET response == [Message |-> "Invalid or missing API Key",
                     StatusCode |-> StatusForbidden]
    IN [req |-> r,
        rw |-> [w EXCEPT !.header = [@ EXCEPT !["Content-Type"] =
                                        "application/json; charset=utf-8"],
                         !.code = response.StatusCode,
                         !.body = @ \o JSONEncode(response)],
        calls |-> << >>, stdout |-> << >>]

\* the tail of ServeHTTP, reached when no location matched
noMatch(k, w, r) ==
    IF k.internalErrorRoute # << >> THEN errorRoute(k, w, r) ELSE forbidden(w, r)

\* the path check without its toggle
checkPathAlways(k, r) == contains(r.URL.Path, k.keys, FALSE)

\* the key each location yields, << >> when the location is off or unmatched
checkHeader(k, r) ==
    IF k.authenticationHeader
    THEN contains(HeaderGet(r.Header, k.authenticationHeaderName), k.keys, TRUE)
    ELSE << >>

checkBearer(k, r) ==
    IF k.bearerHeader
    THEN bearer(HeaderGet(r.Header, k.bearerHeaderName), k.keys)
    ELSE << >>

checkQuery(k, r) ==
    IF k.queryParam
    THEN contains(ValuesGet(Query(r.URL.RawQuery), k.queryParamName), k.keys, TRUE)
    ELSE << >>

checkPath(k, r) ==
    IF k.pathSegment THEN contains(r.URL.Path, k.keys, FALSE) ELSE << >>

\* what each branch does to the request before it calls ok
headerMatched(k, r) ==
    IF k.removeHeadersOnSuccess
    THEN [r EXCEPT !.Header = HeaderDel(@, k.authenticationHeaderName)]
    ELSE r

bearerMatched(k, r) ==
    IF k.removeHeadersOnSuccess
    THEN [r EXCEPT !.Header = HeaderDel(@, k.bearerHeaderName)]
    ELSE r

queryMatched(k, r) ==
    LET qs  == Query(r.URL.RawQuery)
        qs2 == IF k.removeQueryParamsOnSuccess
               THEN ValuesDel(qs, k.queryParamName)
               ELSE qs
    IN [r EXCEPT !.URL.RawQuery = Encode(qs2)]

\* a dispatch in which an enabled location that does not match ends the search
serveElseIf(k, w, r) ==
    IF k.authenticationHeader
    THEN IF checkHeader(k, r) # << >>
         THEN ok(k, w, headerMatched(k, r), checkHeader(k, r))
         ELSE noMatch(k, w, r)
    ELSE IF k.bearerHeader
    THEN IF checkBearer(k, r) # << >>
         THEN ok(k, w, bearerMatched(k, r), checkBearer(k, r))
         ELSE noMatch(k, w, r)
    ELSE IF k.queryParam
    THEN IF checkQuery(k, r) # << >>
         THEN ok(k, w, queryMatched(k, r), checkQuery(k, r))
         ELSE noMatch(k, w, r)
    ELSE IF checkPath(k, r) # << >>
    THEN ok(k, w, r, checkPath(k, r))
    ELSE noMatch(k, w, r)

\* the body of ServeHTTP
serve(k, w, r) ==
    IF checkHeader(k, r) # << >>
    THEN ok(k, w, headerMatched(k, r), checkHeader(k, r))
    ELSE IF checkBearer(k, r) # << >>
    THEN ok(k, w, bearerMatched(k, r), checkBearer(k, r))
    ELSE IF checkQuery(k, r) # << >>
    THEN ok(k, w, queryMatched(k, r), checkQuery(k, r))
    ELSE IF checkPath(k, r) # << >>
    THEN ok(k, w, r, checkPath(k, r))
    ELSE noMatch(k, w, r)

----------------------------------------------------------------------------
(* Inputs *)

\* the Config CreateConfig returns
CreateConfig ==
    [AuthenticationHeader       |-> TRUE,
     AuthenticationHeaderName   |-> "X-API-KEY",
     BearerHeader               |-> TRUE,
     BearerHeaderName           |-> "Authorization",
     QueryParam                 |-> TRUE,
     QueryParamName             |-> "token",
     PathSegment                |-> TRUE,
     RemoveQueryParamsOnSuccess |-> TRUE,
     Keys                       |-> << >>,
     RemoveHeadersOnSuccess     |-> TRUE,
     InternalForwardHeaderName  |-> "",
     InternalErrorRoute         |-> << >>]

\* the configurations the host hands to New: the default names, every
\* combination of the toggles and flags, and a few allow-lists
Configs ==
    [AuthenticationHeader       : BOOLEAN,
     AuthenticationHeaderName   : {CreateConfig.AuthenticationHeaderName},
     BearerHeader               : BOOLEAN,
     BearerHeaderName           : {CreateConfig.BearerHeaderName},
     QueryParam                 : BOOLEAN,
     QueryParamName             : {CreateConfig.QueryParamName},
     PathSegment                : BOOLEAN,
     RemoveQueryParamsOnSuccess : BOOLEAN,
     Keys                       : {<< >>, <<K1>>, <<K2, K1>>, <<<< >>, K1>>},
     RemoveHeadersOnSuccess     : BOOLEAN,
     InternalForwardHeaderName  : {"", "X-Auth-Key", "Authorization"},
     InternalErrorRoute         : {<< >>, Denied}]

\* the inbound requests
Headers ==
    {[n \in HeaderNames |->
        CASE n = "X-Api-Key" -> x [] n = "Authorization" -> a [] OTHER -> f] :
        x \in {<< >>, <<K1>>, <<ZZ>>},
        a \in {<< >>, <<BearerWord \o Space \o K1>>, <<BasicWord \o Space \o K1>>},
        f \in {<< >>, <<Evil>>}}

Paths == {<<"/", "x">>, <<"/">> \o K1, <<"/">> \o K1 \o <<"/">> \o K2}

RawQueries ==
    {<< >>,
     <<<<"token", K1>>>>,
     <<<<"z", ZZ>>, <<"token", K1>>, <<"a", ZZ>>>>,
     <<<<"token", ZZ>>, <<"token", K1>>>>,
     <<<<"a", ZZ>>>>}

Requests ==
    {[Header |-> h, URL |-> [Path |-> p, RawQuery |-> q],
      RequestURI |-> [Path |-> p, RawQuery |-> q]] :
        h \in Headers, p \in Paths, q \in RawQueries}

NoRequest ==
    [Header |-> [n \in HeaderNames |-> << >>],
     URL |-> [Path |-> << >>, RawQuery |-> << >>],
     RequestURI |-> [Path |-> << >>, RawQuery |-> << >>]]

\* a response writer nothing has been written to
NewResponseWriter ==
    [header |-> [n \in {"Content-Type"} |-> ""], code |-> 0, body |-> ""]

NoCall == [fn |-> "idle", key |-> << >>, validKeys |-> << >>, ret |-> << >>]

----------------------------------------------------------------------------
(* The handler's life: New, then one request after the other *)

Init ==
    /\ pc = "start"
    /\ config = CreateConfig
    /\ ka = << >>
    /\ err = << >>
    /\ inbound = NoRequest
    /\ req = NoRequest
    /\ rw = NewResponseWriter
    /\ calls = << >>
    /\ stdout = << >>
    /\ matcher = NoCall

New ==
    /\ pc = "start"
    /\ \E cfg \in Configs :
        /\ config' = cfg
        /\ err' = NewError(cfg)
        /\ ka' = IF NewError(cfg) = << >> THEN <<KeyAuth(cfg)>> ELSE << >>
        /\ pc' = IF NewError(cfg) = << >> THEN "ready" ELSE "failed"
    /\ UNCHANGED <<inbound, req, rw, calls, stdout, matcher>>

\* the host delivers a request and a fresh response writer
Receive ==
    /\ pc = "ready"
    /\ \E r \in Requests :
        /\ inbound' = r
        /\ req' = r
    /\ rw' = NewResponseWriter
    /\ calls' = << >>
    /\ stdout' = << >>
    /\ pc' = "serving"
    /\ UNCHANGED <<config, ka, err, matcher>>

ServeHTTP ==
    /\ pc = "serving"
    /\ LET out == serve(ka[1], rw, req) IN
        /\ req' = out.req
        /\ rw' = out.rw
        /\ calls' = out.calls
        /\ stdout' = out.stdout
    /\ pc' = "returned"
    /\ UNCHANGED <<config, ka, err, inbound, matcher>>

\* the request is discarded; the handler keeps nothing of it
Return ==
    /\ pc = "returned"
    /\ pc' = "ready"
    /\ inbound' = NoRequest
    /\ req' = NoRequest
    /\ rw' = NewResponseWriter
    /\ calls' = << >>
    /\ stdout' = << >>
    /\ UNCHANGED <<config, ka, err, matcher>>

Next == New \/ Receive \/ ServeHTTP \/ Return

Spec == Init /\ [][Next]_vars

----------------------------------------------------------------------------
(* The matcher functions on their own *)

MaxKeys == 2
MaxLen == 3
MaxSpaces == 2

RECURSIVE SeqsUpTo(_, _)
\* the sequences over S of length at most n
SeqsUpTo(S, n) ==
    IF n = 0 THEN {<< >>}
    ELSE LET shorter == SeqsUpTo(S, n - 1) IN
         shorter \cup {Append(s, x) : s \in shorter, x \in S}

KeyPool == {<< >>, <<"a">>, <<"b">>, <<"a", "b">>}
KeyLists == SeqsUpTo(KeyPool, MaxKeys)

Candidates == SeqsUpTo({"a", "b"}, MaxLen)

RECURSIVE Spaces(_)
Spaces(n) == IF n = 0 THEN << >> ELSE Space \o Spaces(n - 1)

Tokens == {<< >>, <<"a">>, <<"a", "b">>, <<"a", "$", "b">>, <<"$", "a">>}

HeaderValues ==
    {pre \o word \o sep \o tok :
        pre \in {<< >>, <<"x">>},
        word \in {BearerWord, BasicWord},
        sep \in {Spaces(n) : n \in 0..MaxSpaces} \cup {<<"\t">>},
        tok \in Tokens}

MatcherInit ==
    /\ pc = "start"
    /\ config = CreateConfig
    /\ ka = << >>
    /\ err = << >>
    /\ inbound = NoRequest
    /\ req = NoRequest
    /\ rw = NewResponseWriter
    /\ calls = << >>
    /\ stdout = << >>
    /\ matcher \in [fn : {"input"}, key : Candidates \cup HeaderValues,
                    validKeys : KeyLists, ret : {<< >>}]

ExactMatch ==
    /\ matcher.fn = "input"
    /\ matcher' = [matcher EXCEPT !.fn = "exact",
                     !.ret = contains(matcher.key, matcher.validKeys, TRUE)]
    /\ UNCHANGED <<pc, config, ka, err, inbound, req, rw, calls, stdout>>

SubstringMatch ==
    /\ matcher.fn = "input"
    /\ matcher' = [matcher EXCEPT !.fn = "substring",
                     !.ret = contains(matcher.key, matcher.validKeys, FALSE)]
    /\ UNCHANGED <<pc, config, ka, err, inbound, req, rw, calls, stdout>>

ExtractBearer ==
    /\ matcher.fn = "input"
    /\ matcher' = [matcher EXCEPT !.fn = "bearer",
                     !.ret = bearer(matcher.key, matcher.validKeys)]
    /\ UNCHANGED <<pc, config, ka, err, inbound, req, rw, calls, stdout>>

MatcherNext == ExactMatch \/ SubstringMatch \/ ExtractBearer

SpecMatcher == MatcherInit /\ [][MatcherNext]_vars

----------------------------------------------------------------------------
(* Properties of the handler, stated on the inbound request *)

Served == pc = "returned"
Forwarded == Served /\ calls # << >>
K == ka[1]

\* what each location of the inbound request yields when it is enabled
Yield(k, r) ==
    <<IF k.authenticationHeader
      THEN contains(HeaderGet(r.Header, k.authenticationHeaderName), k.keys, TRUE)
      ELSE << >>,
      IF k.bearerHeader
      THEN bearer(HeaderGet(r.Header, k.bearerHeaderName), k.keys)
      ELSE << >>,
      IF k.queryParam
      THEN contains(ValuesGet(Query(r.URL.RawQuery), k.queryParamName), k.keys, TRUE)
      ELSE << >>,
      IF k.pathSegment THEN contains(r.URL.Path, k.keys, FALSE) ELSE << >> >>

\* the first location in the order header, bearer, query, path that yields a
\* key; 0 when none does
Winner(k, r) ==
    LET hits == {i \in 1..4 : Yield(k, r)[i] # << >>} IN
    IF hits = {} THEN 0 ELSE CHOOSE i \in hits : \A j \in hits : i <= j

\* what a location presents whatever its toggle
Presents(k, r) ==
    <<contains(HeaderGet(r.Header, k.authenticationHeaderName), k.keys, TRUE),
      bearer(HeaderGet(r.Header, k.bearerHeaderName), k.keys),
      contains(ValuesGet(Query(r.URL.RawQuery), k.queryParamName), k.keys, TRUE),
      contains(r.URL.Path, k.keys, FALSE)>>

Toggles(k) ==
    <<k.authenticationHeader, k.bearerHeader, k.queryParam, k.pathSegment>>

\* C1: the next handler is called exactly once when an enabled location yields
\* an allow-list entry and not at all otherwise, never twice, and never for a
\* credential that only disabled locations present.
C1_ForwardIffEnabledMatch ==
    /\ Len(calls) <= 1
    /\ ~Served => calls = << >>
    /\ Served =>
        /\ Len(calls) = IF \E i \in 1..4 : Toggles(K)[i] /\ Presents(K, inbound)[i] # << >>
                        THEN 1 ELSE 0
        /\ (\A i \in 1..4 : Presents(K, inbound)[i] # << >> => ~Toggles(K)[i])
              => calls = << >>

\* a request forwarded on its path alone, while the header location, switched
\* off, carries a valid key
C1_Witness ==
    /\ Forwarded
    /\ Winner(K, inbound) = 4
    /\ ~K.authenticationHeader
    /\ Presents(K, inbound)[1] = K1

\* a request carrying valid keys in switched-off locations only, not forwarded
C1_WitnessDisabled ==
    /\ Served /\ calls = << >>
    /\ \E i \in 1..4 : Presents(K, inbound)[i] # << >>

\* the headers the next handler must see when location w won with key
ExpectedHeader(k, r, w, key) ==
    LET name == IF w = 1 THEN k.authenticationHeaderName ELSE k.bearerHeaderName
        kept == IF w \in {1, 2} /\ k.removeHeadersOnSuccess
                THEN HeaderDel(r.Header, name)
                ELSE r.Header
    IN IF k.internalForwardHeaderName # ""
       THEN HeaderAdd(kept, k.internalForwardHeaderName, key)
       ELSE kept

\* C2: the locations are tried in the order header, bearer, query, path; the
\* first enabled one that matches decides the key that is logged and forwarded
\* and the mutation, later ones are left alone, and an enabled location that
\* does not match lets the later ones be tried.  With the header unmatched and
\* the bearer header carrying k1, the request is forwarded once with k1 and,
\* when removeHeadersOnSuccess is set, without the bearer header's inbound value.
C2_FirstMatchWins ==
    Served =>
        LET w == Winner(K, inbound)
            key == Yield(K, inbound)[w]
        IN /\ (w # 0) = (Len(calls) = 1)
           /\ w # 0 =>
                /\ stdout = <<[KEY |-> key, URL |-> calls[1].URL]>>
                /\ calls[1].Header = ExpectedHeader(K, inbound, w, key)
                /\ w # 3 => calls[1].URL = inbound.URL
                /\ w = 3 => Query(calls[1].URL.RawQuery) =
                              IF K.removeQueryParamsOnSuccess
                              THEN ValuesDel(Query(inbound.URL.RawQuery), K.queryParamName)
                              ELSE Query(inbound.URL.RawQuery)
           /\ ( /\ K.authenticationHeader /\ Presents(K, inbound)[1] = << >>
                /\ K.bearerHeader /\ Presents(K, inbound)[2] = K1 )
              => /\ Len(calls) = 1
                 /\ stdout[1].KEY = K1
                 /\ K.removeHeadersOnSuccess =>
                      calls[1].Header[CanonicalMIMEHeaderKey(K.bearerHeaderName)] =
                        IF CanonicalMIMEHeaderKey(K.internalForwardHeaderName) =
                           CanonicalMIMEHeaderKey(K.bearerHeaderName)
                        THEN <<K1>> ELSE << >>

\* the priority scenario: header enabled and unmatched, bearer matched with
\* k1, a valid key in the query as well, headers removed on success
C2_Witness ==
    /\ Forwarded
    /\ K.authenticationHeader /\ Presents(K, inbound)[1] = << >>
    /\ inbound.Header["X-Api-Key"] = <<ZZ>>
    /\ K.bearerHeader /\ Presents(K, inbound)[2] = K1
    /\ K.queryParam /\ Presents(K, inbound)[3] = K1
    /\ K.removeHeadersOnSuccess
    /\ calls[1].Header["Authorization"] = << >>
    /\ calls[1].URL.RawQuery = inbound.URL.RawQuery

Rejected == Served /\ Winner(K, inbound) = 0 /\ K.internalErrorRoute = << >>
Rerouted == Served /\ Winner(K, inbound) = 0 /\ K.internalErrorRoute # << >>

\* C3 as stated: on a rejection without an error route the caller gets status
\* 403, the JSON content type and a body that is exactly the JSON object; the
\* next handler is not called and the request is left as it came.
C3_RejectBodyExact ==
    Rejected =>
        /\ rw.code = 403
        /\ rw.header["Content-Type"] = "application/json; charset=utf-8"
        /\ rw.body = "{\"message\":\"Invalid or missing API Key\",\"status_code\":403}"
        /\ calls = << >>
        /\ req = inbound

\* C3 amended: as C3, the body being the JSON object followed by one newline.
C3_RejectBodyLine ==
    Rejected =>
        /\ rw.code = 403
        /\ rw.header["Content-Type"] = "application/json; charset=utf-8"
        /\ rw.body = "{\"message\":\"Invalid or missing API Key\",\"status_code\":403}\n"
        /\ calls = << >>
        /\ req = inbound

\* a rejected request that carried a wrong key in a header and in the query
C3_Witness ==
    /\ Rejected
    /\ rw.code = 403
    /\ inbound.Header["X-Api-Key"] = <<ZZ>>
    /\ inbound.URL.RawQuery # << >>

\* C4: with an error route and no match the request is pointed at the route,
\* its query string emptied, nothing is written to the caller and the next
\* handler is not called.
C4_ErrorRoute ==
    Rerouted =>
        /\ req.URL.Path = K.internalErrorRoute
        /\ req.URL.RawQuery = << >>
        /\ rw = NewResponseWriter
        /\ calls = << >>

\* a request with a query string, sent to the error route
C4_Witness ==
    /\ Rerouted
    /\ inbound.URL.RawQuery # << >>
    /\ req.URL.Path = Denied

AllOff(cfg) ==
    ~cfg.AuthenticationHeader /\ ~cfg.BearerHeader /\ ~cfg.QueryParam /\ ~cfg.PathSegment

\* C5: New returns an error and no handler exactly when the allow-list is
\* empty or all four toggles are false; otherwise a handler and no error.
C5_NewFailsIff ==
    pc # "start" =>
        IF Len(config.Keys) = 0 \/ AllOff(config)
        THEN err # << >> /\ ka = << >> /\ pc = "failed"
        ELSE err = << >> /\ ka = <<KeyAuth(config)>> /\ pc # "failed"

\* a handler built with the query parameter as its only location
C5_Witness ==
    /\ pc = "ready"
    /\ config.QueryParam
    /\ ~config.AuthenticationHeader /\ ~config.BearerHeader /\ ~config.PathSegment

\* C6: when a forward header name is configured, the request handed on carries
\* under that name the key that matched, whatever it carried before; without
\* a name no header gains a value.
C6_ForwardHeader ==
    Forwarded =>
        LET key == Yield(K, inbound)[Winner(K, inbound)]
            d == calls[1].Header
        IN IF K.internalForwardHeaderName # ""
           THEN \E i \in 1..Len(d[CanonicalMIMEHeaderKey(K.internalForwardHeaderName)]) :
                    d[CanonicalMIMEHeaderKey(K.internalForwardHeaderName)][i] = key
           ELSE \A n \in HeaderNames : Len(d[n]) <= Len(inbound.Header[n])

\* a path match on the second of two contained keys' list order, forwarded
\* under a name the inbound request already used
C6_Witness ==
    /\ Forwarded
    /\ Winner(K, inbound) = 4
    /\ K.keys = <<K2, K1>>
    /\ inbound.URL.Path = <<"/">> \o K1 \o <<"/">> \o K2
    /\ K.internalForwardHeaderName = "X-Auth-Key"
    /\ inbound.Header["X-Auth-Key"] = <<Evil>>
    /\ calls[1].Header["X-Auth-Key"] = <<Evil, K2>>

\* C10: the request handed on differs from the inbound one by the deletion of
\* the winning header (header or bearer match, removeHeadersOnSuccess), by the
\* deletion of the winning query parameter (query match,
\* removeQueryParamsOnSuccess) and by the forward header, and by nothing else:
\* the path is kept, and the query string is kept unless the parameter is
\* deleted.
C10_OnlyStatedMutations ==
    Forwarded =>
        LET w == Winner(K, inbound)
            d == calls[1]
        IN /\ d.Header = ExpectedHeader(K, inbound, w, Yield(K, inbound)[w])
           /\ d.URL.Path = inbound.URL.Path
           /\ IF w = 3 /\ K.removeQueryParamsOnSuccess
              THEN Query(d.URL.RawQuery) =
                     ValuesDel(Query(inbound.URL.RawQuery), K.queryParamName)
              ELSE d.URL.RawQuery = inbound.URL.RawQuery

----------------------------------------------------------------------------
(* Properties of the matcher functions.  "none" is the empty string. *)

\* the tokens t for which h is "Bearer", one or more whitespace characters,
\* then t, t being one or more characters running to the end of h
WholeValueTokens(h) ==
    {SubSeq(h, n + 1, Len(h)) : n \in
        {m \in 7..(Len(h) - 1) :
            /\ SubSeq(h, 1, 6) = BearerWord
            /\ \A j \in 7..m : IsSpace(h[j])}}

InList(x, L) == \E i \in 1..Len(L) : L[i] = x

\* C7: bearer returns a match only for a header value that is, as a whole,
\* "Bearer", whitespace, token, with the token on the allow-list, and then
\* returns that entry; it returns none for every other value.
C7_BearerWholeValue ==
    matcher.fn = "bearer" =>
        LET good == {t \in WholeValueTokens(matcher.key) : InList(t, matcher.validKeys)}
        IN IF good = {} THEN matcher.ret = << >> ELSE matcher.ret \in good

\* the indices of the entries contained in the candidate
ContainedAt(c, L) == {i \in 1..Len(L) : StringsContains(c, L[i])}
FirstOf(S) == CHOOSE i \in S : \A j \in S : i <= j

\* C8 as stated: the substring match returns the first entry, in list order,
\* that the candidate contains, and none exactly when it contains no entry.
C8_SubstringNoneIff ==
    matcher.fn = "substring" =>
        LET hits == ContainedAt(matcher.key, matcher.validKeys) IN
        /\ hits # {} => matcher.ret = matcher.validKeys[FirstOf(hits)]
        /\ (matcher.ret = << >>) = (hits = {})

\* C8 amended: the substring match returns the first entry, in list order,
\* that the candidate contains; it returns none exactly when the candidate
\* contains no entry or that first entry is the empty string.
C8_SubstringFirst ==
    matcher.fn = "substring" =>
        LET hits == ContainedAt(matcher.key, matcher.validKeys) IN
        /\ hits # {} => matcher.ret = matcher.validKeys[FirstOf(hits)]
        /\ (matcher.ret = << >>) =
              (hits = {} \/ matcher.validKeys[FirstOf(hits)] = << >>)

\* two overlapping entries both contained in the candidate, the second in
\* list order being the longer one
C8_Witness ==
    /\ matcher.fn = "substring"
    /\ matcher.validKeys = <<<<"a">>, <<"a", "b">>>>
    /\ matcher.key = <<"b", "a", "b">>
    /\ matcher.ret = <<"a">>

\* C9 as stated: the exact match returns a member equal to the candidate when
\* there is one, and none exactly when no member equals the candidate.
C9_ExactNoneIff ==
    matcher.fn = "exact" =>
        /\ InList(matcher.key, matcher.validKeys) => matcher.ret = matcher.key
        /\ (matcher.ret = << >>) = ~InList(matcher.key, matcher.validKeys)

\* C9 amended: the exact match returns a member equal to the candidate when
\* there is one, and none exactly when no member equals the candidate or the
\* candidate is empty.
C9_ExactNonEmpty ==
    matcher.fn = "exact" =>
        /\ InList(matcher.key, matcher.validKeys) => matcher.ret = matcher.key
        /\ (matcher.ret = << >>) =
              (~InList(matcher.key, matcher.validKeys) \/ matcher.key = << >>)

\* a candidate equal to the second entry of a list whose first entry is one
\* of its substrings
C9_Witness ==
    /\ matcher.fn = "exact"
    /\ matcher.validKeys = <<<<"a">>, <<"a", "b">>>>
    /\ matcher.key = <<"a", "b">>
    /\ matcher.ret = <<"a", "b">>

====
